---- MODULE Spec2Model ----
(***************************************************************************)
(* Model of scran::average_vectors (include/scran/average_vectors.hpp):    *)
(* element-wise (weighted) averages across a collection of equal-length    *)
(* arrays, with optional per-element NaN exclusion.                        *)
(*                                                                         *)
(* Numbers.  Arithmetic is exact: a number is a pair <<p, q>> with q >= 0  *)
(* in lowest terms.  q > 0 is the rational p/q; <<0, 0>> is NaN, <<1, 0>>  *)
(* is +Infinity and <<-1, 0>> is -Infinity, so that division by zero and   *)
(* NaN propagation behave as in IEEE arithmetic.                           *)
(***************************************************************************)
EXTENDS Integers, Sequences, FiniteSets

(* ------------------------------ bounds -------------------------------- *)

\* Largest number of arrays in the collection (in.size()).
MaxArrays == 3
\* Largest array length n.
MaxN == 2
\* Largest number of elements in the whole collection (in.size() * n).
MaxCells == 4

(* ---------------------------- arithmetic ------------------------------ *)

Abs(a) == IF a < 0 THEN -a ELSE a

Sign(a) == IF a < 0 THEN -1 ELSE IF a > 0 THEN 1 ELSE 0

RECURSIVE Gcd(_, _)
Gcd(a, b) == IF b = 0 THEN a ELSE Gcd(b, a % b)

\* The number p/q in canonical form.
Rat(p, q) ==
    IF q = 0 THEN <<Sign(p), 0>>
    ELSE LET g == Gcd(Abs(p), Abs(q))
             s == Sign(q)
         IN  <<(s * p) \div g, (s * q) \div g>>

\* std::numeric_limits<Output_>::quiet_NaN()
NaN == <<0, 0>>

Zero == <<0, 1>>

One == <<1, 1>>

\* std::isnan
isnan(x) == x = NaN

\* x + y
Add(x, y) ==
    IF isnan(x) \/ isnan(y) THEN NaN
    ELSE IF x[2] = 0 /\ y[2] = 0 THEN (IF x[1] = y[1] THEN x ELSE NaN)
    ELSE Rat(x[1] * y[2] + y[1] * x[2], x[2] * y[2])

\* x * y
Mul(x, y) == Rat(x[1] * y[1], x[2] * y[2])

\* x / y
Div(x, y) == Rat(x[1] * y[2] * Sign(y[1]), x[2] * Abs(y[1]))

(* ------------------------- the averaging code ------------------------- *)

\* std::fill_n(out, n, v)
fill_n(n, v) == [i \in 1..n |-> v]

\* copy with the source pointer never advanced.
copy_first_element(src, n) == [i \in 1..n |-> src[1]]

\* std::copy(in[0], in[0] + n, out)
copy(src, n) == [i \in 1..n |-> src[i]]

\* std::accumulate(w, w + size, 0.0)
RECURSIVE accumulate(_, _)
accumulate(w, size) ==
    IF size = 0 THEN Zero ELSE Add(accumulate(w, size - 1), w[size])

\* loop_weighted_skip with the mass counted as 1 instead of the weight.
loop_weighted_skip_counts_one(n, current, weight, st) ==
    [out |-> [i \in 1..n |->
                LET x == Mul(current[i], weight)
                IN  IF ~isnan(x) THEN Add(st.out[i], x) ELSE st.out[i]],
     accumulated |-> [i \in 1..n |->
                LET x == Mul(current[i], weight)
                IN  IF ~isnan(x) THEN Add(st.accumulated[i], One)
                    ELSE st.accumulated[i]]]

\* The inner loop for a weight other than 0 and 1, with skip_nan: an element
\* whose product with the weight is not NaN is added, and the weight with it.
loop_weighted_skip(n, current, weight, st) ==
    [out |-> [i \in 1..n |->
                LET x == Mul(current[i], weight)
                IN  IF ~isnan(x) THEN Add(st.out[i], x) ELSE st.out[i]],
     accumulated |-> [i \in 1..n |->
                LET x == Mul(current[i], weight)
                IN  IF ~isnan(x) THEN Add(st.accumulated[i], weight)
                    ELSE st.accumulated[i]]]

\* The inner loop for a weight other than 0 and 1, without skip_nan.
loop_weighted(n, current, weight, st) ==
    [out |-> [i \in 1..n |-> Add(st.out[i], Mul(current[i], weight))],
     accumulated |-> st.accumulated]

\* loop_skip with the counter incremented for NaN elements too.
loop_skip_counts_nan(n, current, st) ==
    [out |-> [i \in 1..n |->
                LET x == current[i]
                IN  IF ~isnan(x) THEN Add(st.out[i], x) ELSE st.out[i]],
     accumulated |-> [i \in 1..n |-> Add(st.accumulated[i], One)]]

\* The inner loop without a multiplication, with skip_nan: an element that is
\* not NaN is added and counted.
loop_skip(n, current, st) ==
    [out |-> [i \in 1..n |->
                LET x == current[i]
                IN  IF ~isnan(x) THEN Add(st.out[i], x) ELSE st.out[i]],
     accumulated |-> [i \in 1..n |->
                LET x == current[i]
                IN  IF ~isnan(x) THEN Add(st.accumulated[i], One)
                    ELSE st.accumulated[i]]]

\* loop_plain with NaN elements left out of the sum.
loop_plain_drops_nan(n, current, st) ==
    [out |-> [i \in 1..n |->
                IF ~isnan(current[i]) THEN Add(st.out[i], current[i]) ELSE st.out[i]],
     accumulated |-> st.accumulated]

\* The inner loop without a multiplication, without skip_nan.
loop_plain(n, current, st) ==
    [out |-> [i \in 1..n |-> Add(st.out[i], current[i])],
     accumulated |-> st.accumulated]

\* AddArray without the `weight == 0` shortcut.
AddArray_no_zero_skip(weighted_, n, current, weight, skip_nan, st) ==
    IF weighted_ /\ weight # One THEN
        IF skip_nan THEN loop_weighted_skip(n, current, weight, st)
        ELSE loop_weighted(n, current, weight, st)
    ELSE
        IF skip_nan THEN loop_skip(n, current, st)
        ELSE loop_plain(n, current, st)

\* One iteration of the loop over the arrays: `current` is added into the
\* running sums st.out, and, with skip_nan, its mass into st.accumulated.
AddArray(weighted_, n, current, weight, skip_nan, st) ==
    IF weighted_ /\ weight = Zero THEN st
    ELSE IF weighted_ /\ weight # One THEN
        IF skip_nan THEN loop_weighted_skip(n, current, weight, st)
        ELSE loop_weighted(n, current, weight, st)
    ELSE
        IF skip_nan THEN loop_skip(n, current, st)
        ELSE loop_plain(n, current, st)

\* for (auto current : in): the first j arrays have been added.
RECURSIVE AddArrays(_, _, _, _, _, _, _)
AddArrays(weighted_, n, in, w, skip_nan, j, st) ==
    IF j = 0 THEN st
    ELSE AddArray(weighted_, n, in[j], IF weighted_ THEN w[j] ELSE One, skip_nan,
                  AddArrays(weighted_, n, in, w, skip_nan, j - 1, st))

\* Normalize with the weighted sums divided by the number of arrays.
Normalize_by_count(weighted_, n, in, w, skip_nan, st) ==
    IF skip_nan THEN
        [i \in 1..n |-> Div(st.out[i], st.accumulated[i])]
    ELSE
        LET denom == Div(One, Rat(Len(in), 1))
        IN  [i \in 1..n |-> Mul(st.out[i], denom)]

\* The final normalisation of the sums.
Normalize(weighted_, n, in, w, skip_nan, st) ==
    IF skip_nan THEN
        [i \in 1..n |-> Div(st.out[i], st.accumulated[i])]
    ELSE
        LET denom == IF weighted_ THEN Div(One, accumulate(w, Len(in)))
                     ELSE Div(One, Rat(Len(in), 1))
        IN  [i \in 1..n |-> Mul(st.out[i], denom)]

\* internal_compute with the output left as it was for an empty collection.
internal_compute_empty_unwritten(weighted_, n, in, w, out, skip_nan) ==
    IF Len(in) = 0 THEN out
    ELSE IF Len(in) = 1 THEN
        IF weighted_ /\ w[1] = Zero THEN fill_n(n, NaN)
        ELSE copy(in[1], n)
    ELSE
        LET st0 == [out |-> fill_n(n, Zero),
                    accumulated |-> fill_n(IF skip_nan THEN n ELSE 0, Zero)]
        IN  Normalize(weighted_, n, in, w, skip_nan,
                      AddArrays(weighted_, n, in, w, skip_nan, Len(in), st0))

\* internal_compute with the sums started from the buffer's contents.
internal_compute_no_zero_fill(weighted_, n, in, w, out, skip_nan) ==
    IF Len(in) = 0 THEN fill_n(n, NaN)
    ELSE IF Len(in) = 1 THEN
        IF weighted_ /\ w[1] = Zero THEN fill_n(n, NaN)
        ELSE copy(in[1], n)
    ELSE
        LET st0 == [out |-> out,
                    accumulated |-> fill_n(IF skip_nan THEN n ELSE 0, Zero)]
        IN  Normalize(weighted_, n, in, w, skip_nan,
                      AddArrays(weighted_, n, in, w, skip_nan, Len(in), st0))

\* internal::compute<weighted_>(n, in, w, out, skip_nan): the contents of the
\* output buffer on return, given its contents `out` at the call.
internal_compute(weighted_, n, in, w, out, skip_nan) ==
    IF Len(in) = 0 THEN fill_n(n, NaN)
    ELSE IF Len(in) = 1 THEN
        IF weighted_ /\ w[1] = Zero THEN fill_n(n, NaN)
        ELSE copy(in[1], n)
    ELSE
        LET st0 == [out |-> fill_n(n, Zero),
                    accumulated |-> fill_n(IF skip_nan THEN n ELSE 0, Zero)]
        IN  Normalize(weighted_, n, in, w, skip_nan,
                      AddArrays(weighted_, n, in, w, skip_nan, Len(in), st0))

\* compute(n, in, out, skip_nan)
compute(n, in, out, skip_nan) ==
    internal_compute(FALSE, n, in, <<>>, out, skip_nan)

\* compute(n, in, skip_nan), the overload that allocates the output vector.
compute_alloc(n, in, skip_nan) ==
    compute(n, in, fill_n(n, Zero), skip_nan)

\* The `same` flag of compute_weighted: no weight differs from w[0].
same(in, w) == \A i \in 2..Len(in) : w[i] = w[1]

\* compute_weighted with skip_nan dropped when it delegates to compute.
compute_weighted_drops_skip_nan(n, in, w, out, skip_nan) ==
    IF Len(in) # 0 /\ same(in, w) THEN
        IF w[1] = Zero THEN fill_n(n, NaN)
        ELSE compute(n, in, out, FALSE)
    ELSE internal_compute(TRUE, n, in, w, out, skip_nan)

\* compute_weighted without the test for a shared weight of zero.
compute_weighted_no_zero_test(n, in, w, out, skip_nan) ==
    IF Len(in) # 0 /\ same(in, w) THEN compute(n, in, out, skip_nan)
    ELSE internal_compute(TRUE, n, in, w, out, skip_nan)

\* compute_weighted(n, in, w, out, skip_nan)
compute_weighted(n, in, w, out, skip_nan) ==
    IF Len(in) # 0 /\ same(in, w) THEN
        IF w[1] = Zero THEN fill_n(n, NaN)
        ELSE compute(n, in, out, skip_nan)
    ELSE internal_compute(TRUE, n, in, w, out, skip_nan)

\* compute_weighted(n, in, w, skip_nan), the allocating overload.
compute_weighted_alloc(n, in, w, skip_nan) ==
    compute_weighted(n, in, w, fill_n(n, Zero), skip_nan)

(* ------------------------------ inputs -------------------------------- *)

\* Array elements: NaN and finite values of both signs.
Values == {NaN, Rat(-1, 1), Rat(2, 1)}

\* Weights are non-negative and finite: zero, one, and another weight.
Weights == {Zero, One, Rat(2, 1)}

\* What a caller's output buffer may hold before the first call.
Garbage == {NaN, Rat(7, 1)}

\* The arrays and weights of the worked examples of the documentation.
Examples ==
    { [n |-> 2,
       in |-> << <<Rat(1, 1), NaN>>, <<Rat(3, 1), NaN>>, <<Rat(5, 1), Rat(4, 1)>> >>,
       w |-> <<One, One, One>>],
      [n |-> 2,
       in |-> << <<Rat(1, 1), NaN>>, <<Rat(3, 1), Rat(2, 1)>> >>,
       w |-> <<Rat(2, 1), One>>] }

Inputs ==
    UNION { UNION { { [n |-> len, in |-> a, w |-> ws] :
                        a \in [1..k -> [1..len -> Values]], ws \in [1..k -> Weights] } :
                    k \in {kk \in 0..MaxArrays : kk * len <= MaxCells} } :
            len \in 0..MaxN }
    \cup Examples

(* --------------------------- state machine ---------------------------- *)

VARIABLES
    n,          \* length of each array
    in,         \* the caller's arrays
    w,          \* the caller's weights, one per array
    out,        \* the output array the caller holds
    fn,         \* the entry point that was called, "none" before the call
    skip_nan,   \* the skip_nan argument of the call
    in0,        \* the arrays as they were at construction
    w0,         \* the weights as they were at construction
    before      \* the output buffer as it was when the call was made

vars == <<n, in, w, out, fn, skip_nan, in0, w0, before>>

Init ==
    \E inp \in Inputs, g \in Garbage :
        /\ n = inp.n
        /\ in = inp.in
        /\ w = inp.w
        /\ out = fill_n(inp.n, g)
        /\ fn = "none"
        /\ skip_nan = FALSE
        /\ in0 = inp.in
        /\ w0 = inp.w
        /\ before = fill_n(inp.n, g)

\* A call of compute(n, in, out, skip_nan) on the caller's buffer.
CallCompute ==
    \E s \in BOOLEAN :
        /\ fn = "none"
        /\ out' = compute(n, in, out, s)
        /\ fn' = "compute"
        /\ skip_nan' = s
        /\ before' = out
        /\ UNCHANGED <<n, in, w, in0, w0>>

\* A call of the allocating compute(n, in, skip_nan).
CallComputeAlloc ==
    \E s \in BOOLEAN :
        /\ fn = "none"
        /\ out' = compute_alloc(n, in, s)
        /\ fn' = "compute_alloc"
        /\ skip_nan' = s
        /\ before' = out
        /\ UNCHANGED <<n, in, w, in0, w0>>

\* A call of compute_weighted(n, in, w, out, skip_nan) on the caller's buffer.
CallComputeWeighted ==
    \E s \in BOOLEAN :
        /\ fn = "none"
        /\ out' = compute_weighted(n, in, w, out, s)
        /\ fn' = "compute_weighted"
        /\ skip_nan' = s
        /\ before' = out
        /\ UNCHANGED <<n, in, w, in0, w0>>

\* A call of the allocating compute_weighted(n, in, w, skip_nan).
CallComputeWeightedAlloc ==
    \E s \in BOOLEAN :
        /\ fn = "none"
        /\ out' = compute_weighted_alloc(n, in, w, s)
        /\ fn' = "compute_weighted_alloc"
        /\ skip_nan' = s
        /\ before' = out
        /\ UNCHANGED <<n, in, w, in0, w0>>

Next ==
    \/ CallCompute
    \/ CallComputeAlloc
    \/ CallComputeWeighted
    \/ CallComputeWeightedAlloc

Spec == Init /\ [][Next]_vars

(* ------------------------- reference notions -------------------------- *)

Called == fn # "none"

Weighted == fn \in {"compute_weighted", "compute_weighted_alloc"}

Unweighted == fn \in {"compute", "compute_alloc"}

\* The weight of array j in the average: w[j], and 1 for compute.
WeightOf(j) == IF Weighted THEN w[j] ELSE One

\* The exact sum of f[j] over the indices j of S.
RECURSIVE SumOver(_, _)
SumOver(S, f) ==
    IF S = {} THEN Zero
    ELSE LET j == CHOOSE k \in S : TRUE
         IN  Add(f[j], SumOver(S \ {j}, f))

\* The weighted mean at position i of the arrays whose index is in S.
MeanOver(S, i) ==
    Div(SumOver(S, [j \in S |-> Mul(WeightOf(j), in[j][i])]),
        SumOver(S, [j \in S |-> WeightOf(j)]))

\* The arrays holding a number at position i.
NotNaNAt(i) == {j \in 1..Len(in) : ~isnan(in[j][i])}

NaNFree == \A j \in 1..Len(in) : \A i \in 1..n : ~isnan(in[j][i])

AllWeightsZero == \A j \in 1..Len(in) : w[j] = Zero

AllNaN(v) == DOMAIN v = 1..n /\ \A i \in 1..n : isnan(v[i])

\* The indices of the arrays of non-zero weight among the first j, in order.
RECURSIVE NonZeroUpTo(_)
NonZeroUpTo(j) ==
    IF j = 0 THEN <<>>
    ELSE IF w[j] = Zero THEN NonZeroUpTo(j - 1)
    ELSE Append(NonZeroUpTo(j - 1), j)

NonZero == NonZeroUpTo(Len(in))

\* What the entry point f returns for the caller's inputs when the output
\* buffer holds buf at the call.
ResultOf(f, buf) ==
    CASE f = "compute" -> compute(n, in, buf, skip_nan)
      [] f = "compute_alloc" -> compute_alloc(n, in, skip_nan)
      [] f = "compute_weighted" -> compute_weighted(n, in, w, buf, skip_nan)
      [] f = "compute_weighted_alloc" -> compute_weighted_alloc(n, in, w, skip_nan)

Example1 == << <<Rat(1, 1), NaN>>, <<Rat(3, 1), NaN>>, <<Rat(5, 1), Rat(4, 1)>> >>

Example2 == << <<Rat(1, 1), NaN>>, <<Rat(3, 1), Rat(2, 1)>> >>

(* ------------------------------ claims -------------------------------- *)

\* C1: with skip_nan, compute and compute_weighted return at every position
\* i the sum of w_j * x_j[i] over the arrays that hold a number at i, divided
\* by the sum of w_j over those same arrays (w_j = 1 for compute), and NaN
\* where that denominator is zero; unweighted [[1,NaN],[3,NaN],[5,4]] gives
\* 3 at position 0 and 4 at position 1.
C1_SkipNanMean ==
    (Called /\ skip_nan) =>
        /\ DOMAIN out = 1..n
        /\ \A i \in 1..n :
              LET S == NotNaNAt(i)
                  den == SumOver(S, [j \in S |-> WeightOf(j)])
              IN  out[i] = IF den = Zero THEN NaN ELSE MeanOver(S, i)
        /\ (Unweighted /\ in = Example1) => out = <<Rat(3, 1), Rat(4, 1)>>

C1_Witness ==
    /\ fn = "compute" /\ skip_nan /\ in = Example1
    /\ out = <<Rat(3, 1), Rat(4, 1)>>

\* C2: without skip_nan and with NaN-free inputs, a nonempty collection gives
\* at every position the sum of w_j * x_j[i] over all arrays divided by the
\* sum of all weights (weights not all zero), which for compute is the sum of
\* x_j[i] divided by the number of arrays; arrays that all hold the same
\* constant c give c everywhere.
C2_PlainMean ==
    (Called /\ ~skip_nan /\ Len(in) >= 1 /\ NaNFree /\ (Weighted => ~AllWeightsZero)) =>
        /\ DOMAIN out = 1..n
        /\ \A i \in 1..n : out[i] = MeanOver(1..Len(in), i)
        /\ Unweighted =>
              \A i \in 1..n :
                 out[i] = Div(SumOver(1..Len(in), [j \in 1..Len(in) |-> in[j][i]]),
                              Rat(Len(in), 1))
        /\ \A c \in Values :
              (Unweighted /\ \A j \in 1..Len(in) : \A i \in 1..n : in[j][i] = c)
                  => out = [i \in 1..n |-> c]

C2_Witness ==
    /\ fn = "compute_weighted" /\ ~skip_nan /\ NaNFree
    /\ Len(in) = 3 /\ n = 1
    /\ w = <<Zero, One, Rat(2, 1)>>
    /\ in = << <<Rat(2, 1)>>, <<Rat(-1, 1)>>, <<Rat(2, 1)>> >>
    /\ out = <<One>>

\* C3 (as stated): arrays [[1, NaN], [3, 2]] with weights [2, 1] and skip_nan
\* give 1 at position 0 and 2 at position 1.
C3_Original ==
    (Weighted /\ skip_nan /\ in = Example2 /\ w = <<Rat(2, 1), One>>) =>
        out = <<Rat(1, 1), Rat(2, 1)>>

\* C3 (amended): arrays [[1, NaN], [3, 2]] with weights [2, 1] and skip_nan
\* give (1*2 + 3*1)/(2 + 1) = 5/3 at position 0 and 2 at position 1.
C3_Amended ==
    (Weighted /\ skip_nan /\ in = Example2 /\ w = <<Rat(2, 1), One>>) =>
        out = <<Rat(5, 3), Rat(2, 1)>>

C3_Witness ==
    /\ fn = "compute_weighted" /\ skip_nan
    /\ in = Example2 /\ w = <<Rat(2, 1), One>>
    /\ out = <<Rat(5, 3), Rat(2, 1)>>

\* C4 (as stated): without skip_nan, for a nonempty collection, a NaN held by
\* any array at position i makes the output NaN at i, whatever the weights.
C4_Original ==
    (Called /\ ~skip_nan /\ Len(in) >= 1) =>
        \A i \in 1..n :
            (\E j \in 1..Len(in) : isnan(in[j][i])) => isnan(out[i])

\* C4 (amended): without skip_nan, for a nonempty collection, a NaN held at
\* position i by an array whose weight is not zero (by any array, for
\* compute) makes the output NaN at i.
C4_Amended ==
    (Called /\ ~skip_nan /\ Len(in) >= 1) =>
        \A i \in 1..n :
            (\E j \in 1..Len(in) : isnan(in[j][i]) /\ WeightOf(j) # Zero)
                => isnan(out[i])

C4_Witness ==
    /\ fn = "compute_weighted" /\ ~skip_nan
    /\ Len(in) = 2 /\ n = 2
    /\ w = <<Rat(2, 1), One>>
    /\ isnan(in[1][1]) /\ ~isnan(in[2][1]) /\ ~isnan(in[1][2]) /\ ~isnan(in[2][2])
    /\ isnan(out[1]) /\ ~isnan(out[2])

\* C5: for an empty collection every entry point, with either skip_nan,
\* produces an output of length n that is NaN at every position.
C5_EmptyAllNaN ==
    (Called /\ Len(in) = 0) => AllNaN(out)

C5_Witness ==
    /\ fn = "compute_weighted_alloc" /\ Len(in) = 0 /\ n = MaxN /\ skip_nan
    /\ AllNaN(out)

\* C6: for a nonempty collection, compute_weighted with all weights equal to
\* the same positive value returns exactly what compute returns for the same
\* arrays and the same skip_nan.
C6_EqualWeightsAsUnweighted ==
    (Weighted /\ Len(in) >= 1 /\ same(in, w) /\ w[1] # Zero) =>
        /\ out = compute(n, in, before, skip_nan)
        /\ out = compute_alloc(n, in, skip_nan)

C6_Witness ==
    /\ fn = "compute_weighted" /\ skip_nan
    /\ Len(in) = 2 /\ n = 2
    /\ w = <<Rat(2, 1), Rat(2, 1)>>
    /\ isnan(in[1][1]) /\ ~isnan(in[2][1]) /\ in[1][2] # in[2][2]
    /\ out = compute(n, in, before, skip_nan)

\* C7: for a nonempty collection, compute_weighted with every weight zero
\* returns NaN at every one of the n positions, whatever the arrays hold.
C7_ZeroWeightsAllNaN ==
    (Weighted /\ Len(in) >= 1 /\ AllWeightsZero) => AllNaN(out)

C7_Witness ==
    /\ fn = "compute_weighted" /\ ~skip_nan
    /\ Len(in) = 2 /\ n = 2 /\ NaNFree /\ AllWeightsZero
    /\ AllNaN(out)

\* C8: for a collection of exactly one array, compute returns that array
\* element for element, NaN included, and so does compute_weighted when the
\* weight is greater than zero, whatever the weight is.
C8_SingleArrayCopied ==
    (Called /\ Len(in) = 1 /\ (Weighted => w[1] # Zero)) =>
        /\ DOMAIN out = 1..n
        /\ \A i \in 1..n : out[i] = in[1][i]

C8_Witness ==
    /\ fn = "compute_weighted" /\ skip_nan
    /\ Len(in) = 1 /\ n = 2 /\ w = <<Rat(2, 1)>>
    /\ isnan(in[1][1]) /\ ~isnan(in[1][2])
    /\ out = in[1]

\* C9: every call writes all n positions of the output, so the result does
\* not depend on what the buffer held before, and leaves the arrays and the
\* weights as they were.
C9_OutputFullyWritten ==
    Called =>
        /\ DOMAIN out = 1..n
        /\ \A g \in Garbage \cup {Zero} : out = ResultOf(fn, fill_n(n, g))
        /\ in = in0
        /\ w = w0

C9_Witness ==
    /\ fn = "compute" /\ ~skip_nan
    /\ Len(in) = 2 /\ n = 2 /\ NaNFree
    /\ before = fill_n(n, Rat(7, 1))
    /\ out = ResultOf(fn, fill_n(n, NaN))

\* C10: for compute_weighted, removing every array of weight zero together
\* with its weight leaves the output unchanged at every position.
C10_ZeroWeightRemoved ==
    Weighted =>
        LET keep == NonZero
            in2 == [k \in 1..Len(keep) |-> in[keep[k]]]
            w2 == [k \in 1..Len(keep) |-> w[keep[k]]]
        IN  out = compute_weighted(n, in2, w2, before, skip_nan)

C10_Witness ==
    /\ fn = "compute_weighted" /\ ~skip_nan
    /\ Len(in) = 3 /\ n = 1
    /\ w = <<Zero, One, Rat(2, 1)>>
    /\ isnan(in[1][1]) /\ ~isnan(in[2][1]) /\ ~isnan(in[3][1])
    /\ ~isnan(out[1])

====
